---- MODULE Spec2Model ----
(***************************************************************************)
(* Model of src/db/db.go: the dongle (device-port binding) registry kept   *)
(* in one ql table `dongles` with a unique index on `path`.                *)
(*                                                                         *)
(* The table is a sequence of rows in storage (insertion) order.  Every    *)
(* call of the package runs its statements in one transaction, so a call   *)
(* is one atomic step on the table, except GetSymlinkCandidate, which      *)
(* issues two queries with no transaction around them.                     *)
(*                                                                         *)
(* Spec:      the calls made one after another, over three ports.          *)
(* ConcSpec:  two callers whose calls overlap, over two ports.             *)
(* FieldSpec: calls made one after another with dongles that differ in     *)
(*            their informational fields, over two ports.                  *)
(* FaultSpec: the calls on a store whose operations may fail, the write    *)
(*            calls taken a transaction step at a time.                    *)
(* `clock` is the reading of now(); it stands still in all of them.        *)
(***************************************************************************)
EXTENDS Integers, Sequences, FiniteSets, TLC

VARIABLES schema, dongles, clock, last, calls

vars == <<schema, dongles, clock, last, calls>>

---------------------------------------------------------------------------
(* Bounds of the model.                                                    *)

MaxTTY == 2
ConcMaxTTY == 1

(* Values the inputs are drawn from.                                       *)

IMEIs == {"A", "B"}
TTYs == 0 .. MaxTTY
PortNumbers == {0, 1, 2}
ZeroTime == 0

---------------------------------------------------------------------------
(* Values.                                                                 *)

\* fmt.Sprintf("/dev/ttyUSB%d", tty): the text of a path is its prefix
\* followed by the decimal number.
Sprintf(tty) == [prefix |-> "/dev/ttyUSB", n |-> tty]

Paths == {Sprintf(n) : n \in PortNumbers}

\* A nil error, or no value.
Nil == "nil"

\* A nil *Dongle.
NilDongle == [nil |-> TRUE]

\* The errors the calls return, named by their cause.
ErrNoRows == "sql: no rows in result set"
ErrNullMin == "min(tty) over no rows is NULL: cannot scan into int"
ErrUnique == "duplicate value for unique index UQE_dongels"
ErrIndexExists == "index UQE_dongels already exists"

\* map[string]string: a nil map, or a present map given by its key/value pairs.
NilMap == [present |-> FALSE, kv |-> {}]
MakeMap(pairs) == [present |-> TRUE, kv |-> pairs]

\* A blob column: NULL, or the bytes of a JSON object, written here as the
\* sequence of its "key":"value" members.
NullBlob == [null |-> TRUE, members |-> <<>>]

\* The keys a Properties map may hold, in the order json.Marshal writes them
\* (sorted).
KeyOrder == <<"k1", "k2">>

RECURSIVE MembersFrom(_, _)
MembersFrom(m, i) ==
    IF i > Len(KeyOrder) THEN <<>>
    ELSE LET here == {p \in m.kv : p[1] = KeyOrder[i]}
         IN  (IF here = {} THEN <<>> ELSE <<CHOOSE p \in here : TRUE>>)
                 \o MembersFrom(m, i + 1)

\* json.Marshal(d.Properties), reached only for a non-nil map.
Marshal(m) == [null |-> FALSE, members |-> MembersFrom(m, 1)]

\* json.Unmarshal(prop, &d.Properties) into a fresh Dongle.
Unmarshal(blob) ==
    MakeMap({blob.members[i] : i \in 1 .. Len(blob.members)})

\* `if d.Properties != nil { prop, err = json.Marshal(d.Properties) }`
Encode(m) == IF m.present THEN Marshal(m) ELSE NullBlob

\* Faulty variant: a NULL blob is decoded as an empty map.
DecodeMakingMap(blob) == IF blob.null THEN MakeMap({}) ELSE Unmarshal(blob)

\* `if prop != nil { err = json.Unmarshal(prop, &d.Properties) }`
Decode(blob) == IF blob.null THEN NilMap ELSE Unmarshal(blob)

\* The informational fields a reported dongle carries.
Payloads ==
    { [IMSI |-> "s1", IsSymlinked |-> FALSE, ATI |-> "ati1", Properties |-> NilMap],
      [IMSI |-> "s2", IsSymlinked |-> TRUE, ATI |-> "ati2",
       Properties |-> MakeMap({<<"k1", "v1">>})] }

\* type Dongle struct
Dongle(imei, path, tty, p, created) ==
    [IMEI |-> imei, IMSI |-> p.IMSI, Path |-> path, IsSymlinked |-> p.IsSymlinked,
     TTY |-> tty, ATI |-> p.ATI, Properties |-> p.Properties,
     CreatedOn |-> created, UpdatedOn |-> ZeroTime]

\* The dongles a caller builds from an enumeration report, with the
\* informational fields drawn from X.
Reports(X) ==
    {Dongle(i, p, t, x, ZeroTime) : i \in IMEIs, p \in Paths, t \in TTYs, x \in X}

\* The reports of the calls made one after another: the ports vary, the
\* informational fields do not.
PortPayloads == {x \in Payloads : x.IMSI = "s1"}
NewDongles == Reports(PortPayloads)

---------------------------------------------------------------------------
(* The store: statements of the package run against the table.            *)

\* A row of the table as rows.Scan reads it into a Dongle.
ScanRow(r) ==
    [IMEI |-> r.imei, IMSI |-> r.imsi, Path |-> r.path, IsSymlinked |-> r.symlink,
     TTY |-> r.tty, ATI |-> r.ati, Properties |-> Decode(r.properties),
     CreatedOn |-> r.created_on, UpdatedOn |-> r.updated_on]

\* sql.Open("ql-mem", name): a database with no table.
EmptySchema == [table |-> FALSE, index |-> FALSE]

\* Faulty variant: the index is created without UNIQUE.
UniqueViolatedNever(s, rows, path) == FALSE

\* CREATE UNIQUE INDEX UQE_dongels on dongles(path): the check an insert makes.
UniqueViolated(s, rows, path) ==
    s.index /\ \E i \in 1 .. Len(rows) : rows[i].path = path

\* Migration: CREATE TABLE IF NOT EXISTS, then CREATE UNIQUE INDEX with no
\* IF NOT EXISTS, in one transaction that is rolled back on an error.
MigrationTx(s) ==
    LET afterTable == [s EXCEPT !.table = TRUE]
    IN  IF afterTable.index
        THEN [schema |-> s, err |-> ErrIndexExists]
        ELSE [schema |-> [afterTable EXCEPT !.index = TRUE], err |-> Nil]

\* Faulty variant: an insert at a stored path replaces the row instead of failing.
CreateDongleReplacing(s, rows, d, now) ==
    LET Other(r) == r.path # d.Path
    IN  [rows |-> Append(SelectSeq(rows, Other),
                    [imei |-> d.IMEI, imsi |-> d.IMSI, path |-> d.Path,
                     symlink |-> d.IsSymlinked, tty |-> d.TTY, ati |-> d.ATI,
                     properties |-> Encode(d.Properties),
                     created_on |-> now, updated_on |-> now]),
         err |-> Nil]

\* CreateDongle: INSERT ... VALUES ($1,...,$7,now(),now()).
CreateDongleTx(s, rows, d, now) ==
    IF UniqueViolated(s, rows, d.Path) THEN [rows |-> rows, err |-> ErrUnique]
    ELSE [rows |-> Append(rows,
                     [imei |-> d.IMEI, imsi |-> d.IMSI, path |-> d.Path,
                      symlink |-> d.IsSymlinked, tty |-> d.TTY, ati |-> d.ATI,
                      properties |-> Encode(d.Properties),
                      created_on |-> now, updated_on |-> now]),
          err |-> Nil]

\* Faulty variant: the update matches the path alone.
UpdateDongleByPath(rows, d, now) ==
    [rows |-> [i \in 1 .. Len(rows) |->
                 IF rows[i].path = d.Path
                 THEN [rows[i] EXCEPT !.imei = d.IMEI, !.imsi = d.IMSI,
                                      !.symlink = d.IsSymlinked, !.tty = d.TTY,
                                      !.properties = Encode(d.Properties),
                                      !.created_on = d.CreatedOn,
                                      !.updated_on = now]
                 ELSE rows[i]],
     err |-> Nil]

\* UpdateDongle: UPDATE dongles imei=$1,imsi=$2,path=$3,symlink=$4,tty=$5,
\* properties=$6,created_on=$7,updated_on=now(), WHERE path=$3&&imei=$1.
UpdateDongleTx(rows, d, now) ==
    [rows |-> [i \in 1 .. Len(rows) |->
                 IF rows[i].path = d.Path /\ rows[i].imei = d.IMEI
                 THEN [rows[i] EXCEPT !.imei = d.IMEI, !.imsi = d.IMSI,
                                      !.path = d.Path, !.symlink = d.IsSymlinked,
                                      !.tty = d.TTY,
                                      !.properties = Encode(d.Properties),
                                      !.created_on = d.CreatedOn,
                                      !.updated_on = now]
                 ELSE rows[i]],
     err |-> Nil]

\* Faulty variant: the delete matches the path instead of the IMEI.
RemoveDongleByPath(rows, d) ==
    LET Keep(r) == r.path # d.Path
    IN  [rows |-> SelectSeq(rows, Keep), err |-> Nil]

\* Faulty variant: the delete removes only the first row of the IMEI.
RemoveDongleFirst(rows, d) ==
    LET hits == {i \in 1 .. Len(rows) : rows[i].imei = d.IMEI}
    IN  IF hits = {} THEN [rows |-> rows, err |-> Nil]
        ELSE LET f == CHOOSE i \in hits : \A j \in hits : i <= j
             IN  [rows |-> SubSeq(rows, 1, f - 1) \o SubSeq(rows, f + 1, Len(rows)),
                  err |-> Nil]

\* RemoveDongle: DELETE FROM dongles WHERE imei=$1.
RemoveDongleTx(rows, d) ==
    LET Keep(r) == r.imei # d.IMEI
    IN  [rows |-> SelectSeq(rows, Keep), err |-> Nil]

\* GetAllDongles: select * from dongles.
GetAllDongles(rows) ==
    [out |-> [i \in 1 .. Len(rows) |-> ScanRow(rows[i])], err |-> Nil]

\* GetDongle: SELECT * from dongles WHERE path=$1 LIMIT 1.
GetDongle(rows, path) ==
    LET hits == {i \in 1 .. Len(rows) : rows[i].path = path}
    IN  IF hits = {} THEN [out |-> NilDongle, err |-> ErrNoRows]
        ELSE [out |-> ScanRow(rows[CHOOSE i \in hits : \A j \in hits : i <= j]),
              err |-> Nil]

\* Faulty variant: the minimum over no rows is read as the zero value of int.
MinTTYZero(rows, imei) ==
    LET ttys == {rows[i].tty : i \in {j \in 1 .. Len(rows) : rows[j].imei = imei}}
    IN  IF ttys = {} THEN [tty |-> 0, err |-> Nil]
        ELSE [tty |-> CHOOSE t \in ttys : \A u \in ttys : t <= u, err |-> Nil]

\* select min(tty) from dongles where imei=$1, scanned into an int.
MinTTY(rows, imei) ==
    LET ttys == {rows[i].tty : i \in {j \in 1 .. Len(rows) : rows[j].imei = imei}}
    IN  IF ttys = {} THEN [tty |-> 0, err |-> ErrNullMin]
        ELSE [tty |-> CHOOSE t \in ttys : \A u \in ttys : t <= u, err |-> Nil]

\* GetSymlinkCandidate with no write between its two queries.
GetSymlinkCandidate(rows, imei) ==
    LET m == MinTTY(rows, imei)
    IN  IF m.err # Nil THEN [out |-> NilDongle, err |-> m.err]
        ELSE GetDongle(rows, Sprintf(m.tty))

\* GetDongleByIMEI: SELECT * from dongles WHERE imei=$1 LIMIT 1.
GetDongleByIMEI(rows, imei) ==
    LET hits == {i \in 1 .. Len(rows) : rows[i].imei = imei}
    IN  IF hits = {} THEN [out |-> NilDongle, err |-> ErrNoRows]
        ELSE [out |-> ScanRow(rows[CHOOSE i \in hits : \A j \in hits : i <= j]),
              err |-> Nil]

\* select count(*) from dongles where imei=$1&&imsi=$2&&path=$3
CountDongles(rows, modem) ==
    Cardinality({i \in 1 .. Len(rows) :
                    /\ rows[i].imei = modem.IMEI
                    /\ rows[i].imsi = modem.IMSI
                    /\ rows[i].path = modem.Path})

\* Faulty variant: the count is taken over the rows with the IMEI and the path.
DongleExistsAnyIMSI(rows, modem, err) ==
    /\ err = Nil
    /\ \E i \in 1 .. Len(rows) :
          rows[i].imei = modem.IMEI /\ rows[i].path = modem.Path

\* DongleExists, given the error of its query: an error is logged and the
\* answer is false.
DongleExists(rows, modem, err) ==
    IF err # Nil THEN FALSE ELSE CountDongles(rows, modem) > 0

---------------------------------------------------------------------------
(* GetDistinct.                                                            *)

\* Faulty variant: the map is keyed by the path instead of the IMEI.
GroupStepByPath(s, x) ==
    LET s1 == IF x.Path \in DOMAIN s
              THEN (x.Path :> Append(s[x.Path], x)) @@ s
              ELSE s
    IN  (x.Path :> <<x>>) @@ s1

\* Lines 136-142: the loop over a that fills the map s, one step per k.
GroupStep(s, x) ==
    LET s1 == IF x.IMEI \in DOMAIN s
              THEN (x.IMEI :> Append(s[x.IMEI], x)) @@ s
              ELSE s
    IN  (x.IMEI :> <<x>>) @@ s1

RECURSIVE Group(_, _, _)
Group(a, k, s) ==
    IF k > Len(a) THEN s ELSE Group(a, k + 1, GroupStep(s, a[k]))

\* Dongles.Less
Less(x, y) == x.TTY < y.TTY

\* sort.Sort(v): for the short slices of the model it is an insertion sort.
RECURSIVE InsertSorted(_, _)
InsertSorted(v, x) ==
    IF v = <<>> THEN <<x>>
    ELSE IF Less(x, v[Len(v)])
         THEN Append(InsertSorted(SubSeq(v, 1, Len(v) - 1), x), v[Len(v)])
         ELSE Append(v, x)

RECURSIVE SortDongles(_)
SortDongles(v) ==
    IF v = <<>> THEN <<>>
    ELSE InsertSorted(SortDongles(SubSeq(v, 1, Len(v) - 1)), v[Len(v)])

\* GetDistinct, given what GetAllDongles returned: out holds v[0] of every
\* group; the order of a map range is unspecified, so out is kept as the set
\* of its elements.
DistinctOf(all) ==
    IF all.err # Nil THEN [out |-> {}, err |-> all.err]
    ELSE IF Len(all.out) = 0 THEN [out |-> {}, err |-> Nil]
    ELSE LET groups == Group(all.out, 1, <<>>)
         IN  [out |-> {SortDongles(groups[k])[1] : k \in DOMAIN groups},
              err |-> Nil]

\* GetDistinct on a store whose queries do not fail.
GetDistinct(rows) == DistinctOf(GetAllDongles(rows))

---------------------------------------------------------------------------
(* The store failing.  A call of db.Begin, tx.Exec, tx.Commit, db.Query or  *)
(* Scan may return an error that the statement did not cause.  `f` tells   *)
(* whether the call at hand fails; `hit` in a result tells whether a       *)
(* failure took place.                                                     *)

ErrStorage == "storage failure"

\* Faulty variant: a query that fails is taken to have found nothing.
QuerySwallowing(f, r) == [out |-> r.out, err |-> r.err, hit |-> f]

\* db.Query / db.QueryRow(...).Scan: the result of the query, or the error.
Query(f, r) ==
    IF f THEN [out |-> NilDongle, err |-> ErrStorage, hit |-> TRUE]
    ELSE [out |-> r.out, err |-> r.err, hit |-> FALSE]

\* The points of GetSymlinkCandidate where the store may fail.
CandidateFaults == {"none", "min", "fetch"}

\* GetSymlinkCandidate on a store that fails at its first or second query.
GetSymlinkCandidateOn(rows, imei, f) ==
    LET m == MinTTY(rows, imei)
    IN  IF f = "min" THEN Query(TRUE, m)
        ELSE IF m.err # Nil THEN [out |-> NilDongle, err |-> m.err, hit |-> FALSE]
        ELSE Query(f = "fetch", GetDongle(rows, Sprintf(m.tty)))

\* GetDistinct on a store whose query may fail.
GetDistinctOn(rows, f) ==
    LET all == Query(f, GetAllDongles(rows))
        r == DistinctOf(all)
    IN  [out |-> r.out, err |-> r.err, hit |-> all.hit]

\* DongleExists on a store whose query may fail: there is no error to return.
DongleExistsOn(rows, modem, f) ==
    LET q == Query(f, [out |-> CountDongles(rows, modem), err |-> Nil])
    IN  [out |-> DongleExists(rows, modem, q.err), err |-> Nil, hit |-> q.hit]

---------------------------------------------------------------------------
(* Calls made one after another: every call is one step.  `last` is the     *)
(* call that returned last: its name, its argument, what it returned, and  *)
(* how many rows the table held when it was made.                          *)

Callers == {"c1", "c2"}

NoCall == [op |-> "none", arg |-> Nil, err |-> Nil, out |-> Nil, before |-> 0]
Idle == [pc |-> "idle", op |-> "none", arg |-> Nil, tty |-> 0, err |-> Nil,
         out |-> NilDongle, queries |-> 0, atPath |-> FALSE, with |-> {}]

Returned(op, arg, err, out) ==
    [op |-> op, arg |-> arg, err |-> err, out |-> out, before |-> Len(dongles)]

\* dbWIthName: sql.Open, then Migration.
Init ==
    /\ schema = MigrationTx(EmptySchema).schema
    /\ dongles = <<>>
    /\ clock = 1
    /\ last = NoCall
    /\ calls = [c \in Callers |-> Idle]

Migration ==
    LET r == MigrationTx(schema)
    IN  /\ schema' = r.schema
        /\ last' = Returned("Migration", Nil, r.err, Nil)
        /\ UNCHANGED <<dongles, clock, calls>>

CreateDongle(d) ==
    LET r == CreateDongleTx(schema, dongles, d, clock)
    IN  /\ dongles' = r.rows
        /\ last' = Returned("CreateDongle", d, r.err, Nil)
        /\ UNCHANGED <<schema, clock, calls>>

UpdateDongle(d) ==
    LET r == UpdateDongleTx(dongles, d, clock)
    IN  /\ dongles' = r.rows
        /\ last' = Returned("UpdateDongle", d, r.err, Nil)
        /\ UNCHANGED <<schema, clock, calls>>

RemoveDongle(d) ==
    LET r == RemoveDongleTx(dongles, d)
    IN  /\ dongles' = r.rows
        /\ last' = Returned("RemoveDongle", d, r.err, Nil)
        /\ UNCHANGED <<schema, clock, calls>>

CallGetDongle(path) ==
    LET r == GetDongle(dongles, path)
    IN  /\ last' = Returned("GetDongle", path, r.err, r.out)
        /\ UNCHANGED <<schema, dongles, clock, calls>>

CallGetDistinct ==
    LET r == GetDistinct(dongles)
    IN  /\ last' = Returned("GetDistinct", Nil, r.err, r.out)
        /\ UNCHANGED <<schema, dongles, clock, calls>>

CallGetSymlinkCandidate(imei) ==
    LET r == GetSymlinkCandidate(dongles, imei)
    IN  /\ last' = Returned("GetSymlinkCandidate", imei, r.err, r.out)
        /\ UNCHANGED <<schema, dongles, clock, calls>>

\* The dongles a caller passes to UpdateDongle: one it read from the table and
\* changed, or one that matches no row (the statement then reads only its
\* path and IMEI: one dongle for each).
UpdateArgs(X) ==
    {Dongle(r.imei, r.path, t, x, r.created_on) :
        r \in {dongles[i] : i \in 1 .. Len(dongles)}, t \in TTYs, x \in X}
    \cup
    {d \in Reports(X) :
        /\ d.TTY = 0
        /\ \A i \in 1 .. Len(dongles) :
              dongles[i].path # d.Path \/ dongles[i].imei # d.IMEI}

\* RemoveDongle reads d.IMEI only: one dongle for each IMEI.
RemoveArgs == {d \in NewDongles : d.Path = Sprintf(0) /\ d.TTY = 0}

Next ==
    \/ Migration
    \/ \E d \in NewDongles : CreateDongle(d)
    \/ \E d \in UpdateArgs(PortPayloads) : UpdateDongle(d)
    \/ \E d \in RemoveArgs : RemoveDongle(d)
    \/ \E p \in Paths : CallGetDongle(p)
    \/ CallGetDistinct
    \/ \E i \in IMEIs : CallGetSymlinkCandidate(i)

Spec == Init /\ [][Next]_vars

---------------------------------------------------------------------------
(* Calls that overlap.  A caller's call is a record: where the call stands  *)
(* (pc), its argument, and what it has read and returned so far.  A write  *)
(* is one step, the transaction; GetSymlinkCandidate is two steps, its two *)
(* queries, and any step of the other caller may come between them.        *)
(* Three fields observe the run for the properties and are not read by any *)
(* step: `queries` counts the queries of the call; `atPath` tells, for      *)
(* CreateDongle, whether a row was stored at the dongle's path when the    *)
(* call began and, for GetSymlinkCandidate, whether the minimum found was  *)
(* that of a row of the device stored at the reconstructed path; `with`    *)
(* names the callers that were inside a call when this one began.          *)

ConcTTYs == 0 .. ConcMaxTTY
ConcPaths == {Sprintf(n) : n \in {0, 1}}
ConcDongles ==
    {d \in NewDongles : d.Path \in ConcPaths /\ d.TTY \in ConcTTYs}

InCall(c) == calls[c].pc \notin {"idle", "done"}

PathStored(rows, path) == \E i \in 1 .. Len(rows) : rows[i].path = path

Begin(c, op, arg, pc) ==
    /\ calls[c].pc = "idle"
    /\ calls' = [calls EXCEPT ![c] =
                    [Idle EXCEPT !.pc = pc, !.op = op, !.arg = arg,
                                 !.atPath = (op = "CreateDongle"
                                             /\ PathStored(dongles, arg.Path)),
                                 !.with = {o \in Callers \ {c} : InCall(o)}]]
    /\ UNCHANGED <<schema, dongles, clock, last>>

\* CreateDongle up to db.Begin(): the properties are encoded.
BeginCreate(c, d) == Begin(c, "CreateDongle", d, "tx")

BeginRemove(c, d) == Begin(c, "RemoveDongle", d, "tx")

BeginCandidate(c, imei) == Begin(c, "GetSymlinkCandidate", imei, "min")

\* CreateDongle from tx.Exec to its return.
ExecCreate(c) ==
    /\ calls[c].pc = "tx"
    /\ calls[c].op = "CreateDongle"
    /\ LET r == CreateDongleTx(schema, dongles, calls[c].arg, clock)
       IN  /\ dongles' = r.rows
           /\ calls' = [calls EXCEPT ![c].pc = "done", ![c].err = r.err]
    /\ UNCHANGED <<schema, clock, last>>

\* RemoveDongle from tx.Exec to its return.
ExecRemove(c) ==
    /\ calls[c].pc = "tx"
    /\ calls[c].op = "RemoveDongle"
    /\ LET r == RemoveDongleTx(dongles, calls[c].arg)
       IN  /\ dongles' = r.rows
           /\ calls' = [calls EXCEPT ![c].pc = "done", ![c].err = r.err]
    /\ UNCHANGED <<schema, clock, last>>

\* Whether the row at the reconstructed path is one of the device with that tty.
MinRowAtPath(rows, imei, tty) ==
    \E i \in 1 .. Len(rows) :
        rows[i].path = Sprintf(tty) /\ rows[i].imei = imei /\ rows[i].tty = tty

\* GetSymlinkCandidate, lines 294-299: the query for min(tty).
AfterMin(call, rows) ==
    LET m == MinTTY(rows, call.arg)
    IN  IF m.err # Nil
        THEN [call EXCEPT !.pc = "done", !.err = m.err, !.out = NilDongle,
                          !.queries = @ + 1]
        ELSE [call EXCEPT !.pc = "fetch", !.tty = m.tty, !.queries = @ + 1,
                          !.atPath = MinRowAtPath(rows, call.arg, m.tty)]

\* Faulty variant: when the fetch finds no row the call starts over.
AfterFetchRetry(call, rows) ==
    LET r == GetDongle(rows, Sprintf(call.tty))
    IN  IF r.err = ErrNoRows
        THEN [call EXCEPT !.pc = "min", !.queries = @ + 1]
        ELSE [call EXCEPT !.pc = "done", !.err = r.err, !.out = r.out,
                          !.queries = @ + 1]

\* GetSymlinkCandidate, lines 300-301: the path, and GetDongle at that path.
AfterFetch(call, rows) ==
    LET r == GetDongle(rows, Sprintf(call.tty))
    IN  [call EXCEPT !.pc = "done", !.err = r.err, !.out = r.out,
                     !.queries = @ + 1]

CandidateMin(c) ==
    /\ calls[c].pc = "min"
    /\ calls' = [calls EXCEPT ![c] = AfterMin(calls[c], dongles)]
    /\ UNCHANGED <<schema, dongles, clock, last>>

CandidateFetch(c) ==
    /\ calls[c].pc = "fetch"
    /\ calls' = [calls EXCEPT ![c] = AfterFetch(calls[c], dongles)]
    /\ UNCHANGED <<schema, dongles, clock, last>>

\* The caller takes the result; its next call is a new one.
Return(c) ==
    /\ calls[c].pc = "done"
    /\ calls' = [o \in Callers |->
                    IF o = c THEN Idle ELSE [calls[o] EXCEPT !.with = @ \ {c}]]
    /\ UNCHANGED <<schema, dongles, clock, last>>

ConcNext ==
    \E c \in Callers :
        \/ \E d \in ConcDongles : BeginCreate(c, d)
        \/ \E d \in RemoveArgs : BeginRemove(c, d)
        \/ \E i \in IMEIs : BeginCandidate(c, i)
        \/ ExecCreate(c)
        \/ ExecRemove(c)
        \/ CandidateMin(c)
        \/ CandidateFetch(c)
        \/ Return(c)

ConcSpec == Init /\ [][ConcNext]_vars

\* WHERE path=$3&&imei=$1: whether a row has the path and the IMEI of the dongle.
Matched(rows, d) ==
    \E i \in 1 .. Len(rows) : rows[i].path = d.Path /\ rows[i].imei = d.IMEI

---------------------------------------------------------------------------
(* Calls made one after another on two ports, with dongles that differ in  *)
(* their informational fields.                                             *)

\* The informational fields: a nil map, a map with one key, an empty map.
FieldPayloads ==
    Payloads \cup
    { [IMSI |-> "s1", IsSymlinked |-> TRUE, ATI |-> "ati2",
       Properties |-> MakeMap({})] }

\* The dongles passed to CreateDongle: the tty is the number in the path.
FieldDongles ==
    {d \in Reports(FieldPayloads) :
        d.Path \in ConcPaths /\ d.TTY \in ConcTTYs /\ d.Path = Sprintf(d.TTY)}

\* The dongles passed to UpdateDongle: built from a report of a device at a
\* port where a row of it is stored, without reading the row.
FieldUpdateArgs ==
    {d \in Reports(FieldPayloads) :
        d.Path \in ConcPaths /\ d.TTY \in ConcTTYs /\ Matched(dongles, d)}

\* DongleExists reads the IMEI, the IMSI and the path of its argument.
ExistsArgs == {d \in Reports(Payloads) : d.Path \in ConcPaths /\ d.TTY = 0}

CallDongleExists(modem) ==
    /\ last' = Returned("DongleExists", modem, Nil, DongleExists(dongles, modem, Nil))
    /\ UNCHANGED <<schema, dongles, clock, calls>>

FieldNext ==
    \/ \E d \in FieldDongles : CreateDongle(d)
    \/ \E d \in FieldUpdateArgs : UpdateDongle(d)
    \/ \E p \in ConcPaths : CallGetDongle(p)
    \/ \E d \in ExistsArgs : CallDongleExists(d)

FieldSpec == Init /\ [][FieldNext]_vars

---------------------------------------------------------------------------
(* The store failing.  A goroutine makes the calls of the package one     *)
(* after another.  A write call is a step for each of db.Begin, tx.Exec    *)
(* and tx.Commit: what its statement wrote is in its transaction (`tx`)    *)
(* until the commit, and `dongles` is the table any query reads, whoever   *)
(* makes it.  A read call is one step.  A second goroutine calls           *)
(* GetAllDongles between any two of those steps; what it returned is in    *)
(* `last`.                                                                 *)

Writer == "c1"

WriteOps == {"Migration", "CreateDongle", "UpdateDongle", "RemoveDongle"}

\* The statement a write call passes to tx.Exec, run on a schema and a table.
Statement(op, d, s, rows, now) ==
    IF op = "Migration"
    THEN LET r == MigrationTx(s)
         IN  [schema |-> r.schema, rows |-> rows, err |-> r.err]
    ELSE LET r == CASE op = "CreateDongle" -> CreateDongleTx(s, rows, d, now)
                    [] op = "UpdateDongle" -> UpdateDongleTx(rows, d, now)
                    [] op = "RemoveDongle" -> RemoveDongleTx(rows, d)
         IN  [schema |-> s, rows |-> r.rows, err |-> r.err]

\* What is stored, as a transaction sees it when it begins.
Stored(s, rows) == [schema |-> s, rows |-> rows]

\* A write call that has encoded the properties and is about to call
\* db.Begin; `was` is the table at that moment.
Writing(op, d) ==
    [pc |-> "begin", op |-> op, arg |-> d, err |-> Nil, out |-> NilDongle,
     hit |-> FALSE, tx |-> Stored(schema, dongles), was |-> dongles,
     with |-> {}]

\* The call returns the error err.
Failed(call, err, hit) ==
    [call EXCEPT !.pc = "done", !.err = err, !.hit = hit]

\* Faulty variant: a commit that fails has stored what the statement wrote.
CommittedAnyway(tx, s, rows, f) == [schema |-> tx.schema, rows |-> tx.rows]

\* tx.Commit(): what is stored after it.
Committed(tx, s, rows, f) ==
    IF f THEN Stored(s, rows) ELSE [schema |-> tx.schema, rows |-> tx.rows]

CallWrite(op, d) ==
    /\ calls[Writer].pc = "idle"
    /\ calls' = [calls EXCEPT ![Writer] = Writing(op, d)]
    /\ UNCHANGED <<schema, dongles, clock, last>>

\* tx, err := db.Begin()
TxBegin(f) ==
    /\ calls[Writer].pc = "begin"
    /\ calls' = [calls EXCEPT ![Writer] =
                    IF f THEN Failed(@, ErrStorage, TRUE)
                    ELSE [@ EXCEPT !.pc = "exec", !.tx = Stored(schema, dongles)]]
    /\ UNCHANGED <<schema, dongles, clock, last>>

\* _, err = tx.Exec(query, ...), and tx.Rollback() on an error.
TxExec(f) ==
    /\ calls[Writer].pc = "exec"
    /\ LET call == calls[Writer]
           r == Statement(call.op, call.arg, call.tx.schema, call.tx.rows, clock)
       IN  calls' = [calls EXCEPT ![Writer] =
                        IF f THEN Failed(call, ErrStorage, TRUE)
                        ELSE IF r.err # Nil THEN Failed(call, r.err, FALSE)
                        ELSE [call EXCEPT !.pc = "commit",
                                          !.tx = [schema |-> r.schema,
                                                  rows |-> r.rows]]]
    /\ UNCHANGED <<schema, dongles, clock, last>>

\* return tx.Commit()
TxCommit(f) ==
    /\ calls[Writer].pc = "commit"
    /\ LET after == Committed(calls[Writer].tx, schema, dongles, f)
       IN  /\ schema' = after.schema
           /\ dongles' = after.rows
    /\ calls' = [calls EXCEPT ![Writer] =
                    IF f THEN Failed(@, ErrStorage, TRUE) ELSE Failed(@, Nil, FALSE)]
    /\ UNCHANGED <<clock, last>>

\* A read call, from its query to its return: what it returned, and whether
\* the store failed in it.
Read(op, arg, r) ==
    /\ calls[Writer].pc = "idle"
    /\ calls' = [calls EXCEPT ![Writer] =
                    [Failed(Writing(op, arg), r.err, r.hit) EXCEPT !.out = r.out]]
    /\ UNCHANGED <<schema, dongles, clock, last>>

CallGetAllDongles(f) ==
    Read("GetAllDongles", Nil, Query(f, GetAllDongles(dongles)))

CallGetDistinctOn(f) ==
    Read("GetDistinct", Nil, GetDistinctOn(dongles, f))

CallGetDongleOn(path, f) ==
    Read("GetDongle", path, Query(f, GetDongle(dongles, path)))

CallGetDongleByIMEI(imei, f) ==
    Read("GetDongleByIMEI", imei, Query(f, GetDongleByIMEI(dongles, imei)))

CallGetSymlinkCandidateOn(imei, f) ==
    Read("GetSymlinkCandidate", imei, GetSymlinkCandidateOn(dongles, imei, f))

CallDongleExistsOn(modem, f) ==
    Read("DongleExists", modem, DongleExistsOn(dongles, modem, f))

\* GetAllDongles called by the second goroutine.
ConcurrentGetAllDongles(f) ==
    LET r == Query(f, GetAllDongles(dongles))
    IN  /\ last' = [op |-> "GetAllDongles", arg |-> Nil, err |-> r.err,
                    out |-> r.out, before |-> Len(dongles), hit |-> r.hit]
        /\ UNCHANGED <<schema, dongles, clock, calls>>

\* The dongles passed to CreateDongle: the tty is the number in the path.
FaultDongles == {d \in ConcDongles : d.Path = Sprintf(d.TTY)}

\* The dongles passed to UpdateDongle: read from the table and changed.
FaultUpdateArgs ==
    {d \in UpdateArgs(PortPayloads) :
        d.Path \in ConcPaths /\ d.TTY \in ConcTTYs /\ Matched(dongles, d)}

FaultNext ==
    \/ CallWrite("Migration", Nil)
    \/ \E d \in FaultDongles : CallWrite("CreateDongle", d)
    \/ \E d \in FaultUpdateArgs : CallWrite("UpdateDongle", d)
    \/ \E d \in RemoveArgs : CallWrite("RemoveDongle", d)
    \/ \E f \in BOOLEAN : TxBegin(f)
    \/ \E f \in BOOLEAN : TxExec(f)
    \/ \E f \in BOOLEAN : TxCommit(f)
    \/ Return(Writer)
    \/ \E f \in BOOLEAN : CallGetAllDongles(f)
    \/ \E f \in BOOLEAN : CallGetDistinctOn(f)
    \/ \E p \in ConcPaths, f \in BOOLEAN : CallGetDongleOn(p, f)
    \/ \E i \in IMEIs, f \in BOOLEAN : CallGetDongleByIMEI(i, f)
    \/ \E i \in IMEIs, f \in CandidateFaults : CallGetSymlinkCandidateOn(i, f)
    \/ \E d \in FaultDongles, f \in BOOLEAN : CallDongleExistsOn(d, f)
    \/ \E f \in BOOLEAN : ConcurrentGetAllDongles(f)

FaultSpec == Init /\ [][FaultNext]_vars

---------------------------------------------------------------------------
(* Properties.                                                             *)

\* The rows of a table, and those of one device.
RowSet(rows) == {rows[i] : i \in 1 .. Len(rows)}
RowsOf(rows, imei) == {r \in RowSet(rows) : r.imei = imei}
StoredIMEIs == {r.imei : r \in RowSet(dongles)}

\* The least tty among the rows of a device that has rows.
MinIndex(rows, imei) ==
    CHOOSE t \in {r.tty : r \in RowsOf(rows, imei)} :
        \A r \in RowsOf(rows, imei) : t <= r.tty

\* The errors that tell that no row matched.
NotFound == {ErrNoRows, ErrNullMin}

\* C1: no two stored rows share a path after any call, and a CreateDongle
\* whose path is stored fails on the unique index and leaves the table as
\* it was, whatever the IMEI of the stored row.
C1_PortPathUnique ==
    [][ /\ \A i, j \in 1 .. Len(dongles') :
              dongles'[i].path = dongles'[j].path => i = j
        /\ (last'.op = "CreateDongle" /\ PathStored(dongles, last'.arg.Path))
              => (last'.err = ErrUnique /\ dongles' = dongles) ]_vars

\* A CreateDongle has failed on the unique index against a row of another
\* device.
C1_Witness ==
    /\ last.op = "CreateDongle"
    /\ last.err = ErrUnique
    /\ \E r \in RowSet(dongles) : r.path = last.arg.Path /\ r.imei # last.arg.IMEI

\* C2: GetDistinct returns, for every IMEI that has rows, the row with the
\* least tty among the rows of that IMEI.
C2_DistinctPicksMinimum ==
    last.op = "GetDistinct" =>
        \A x \in StoredIMEIs :
            \E b \in last.out :
                /\ b.IMEI = x
                /\ b.TTY = MinIndex(dongles, x)
                /\ \E r \in RowsOf(dongles, x) : b = ScanRow(r)

\* C3: for an IMEI that has rows, GetSymlinkCandidate with no write between
\* its queries returns a row of that IMEI with the least tty among them.
C3_CandidateIsMinimum ==
    (last.op = "GetSymlinkCandidate" /\ RowsOf(dongles, last.arg) # {}) =>
        /\ last.err = Nil
        /\ last.out.IMEI = last.arg
        /\ last.out.TTY = MinIndex(dongles, last.arg)
        /\ \E r \in RowsOf(dongles, last.arg) : last.out = ScanRow(r)

\* C4: GetDistinct returns as many dongles as there are stored IMEIs, no two
\* with the same IMEI, one for every stored IMEI, each of them a stored row.
C4_OnePerDevice ==
    last.op = "GetDistinct" =>
        /\ last.err = Nil
        /\ Cardinality(last.out) = Cardinality(StoredIMEIs)
        /\ \A a, b \in last.out : a.IMEI = b.IMEI => a = b
        /\ {b.IMEI : b \in last.out} = StoredIMEIs
        /\ last.out \subseteq {ScanRow(r) : r \in RowSet(dongles)}

\* GetDistinct has returned for two devices, one of them on two ports.
C4_Witness ==
    /\ last.op = "GetDistinct"
    /\ Cardinality(StoredIMEIs) = 2
    /\ Len(dongles) = 3
    /\ Cardinality(last.out) = 2

\* What GetDistinct returns for one device.
Representative(rows, imei) ==
    CHOOSE b \in GetDistinct(rows).out : b.IMEI = imei

\* C5: a write that changes the table and leaves the rows of a device as they
\* were leaves what GetDistinct returns for that device as it was: the row
\* of the device with the least tty.
C5_NoCrossDeviceInterference ==
    [][ \A x \in IMEIs :
          (/\ dongles' # dongles
           /\ RowsOf(dongles, x) # {}
           /\ RowsOf(dongles', x) = RowsOf(dongles, x))
             => /\ Representative(dongles', x) = Representative(dongles, x)
                /\ Representative(dongles', x).TTY = MinIndex(dongles, x) ]_vars

\* C6: Migration on a database that has the table and the index returns no
\* error and leaves the schema and the rows as they were.
C6_MigrationIdempotent ==
    [][ (schema.table /\ schema.index /\ Migration)
           => (last'.err = Nil /\ schema' = schema /\ dongles' = dongles) ]_vars

\* The row holds what CreateDongle wrote for the dongle.
WrittenFor(r, d) ==
    /\ r.imei = d.IMEI /\ r.imsi = d.IMSI /\ r.path = d.Path
    /\ r.symlink = d.IsSymlinked /\ r.tty = d.TTY /\ r.ati = d.ATI
    /\ Decode(r.properties) = d.Properties

\* Caller b began a CreateDongle while caller a was inside a CreateDongle for
\* the same path, and both have returned.
BothInserted(a, b) ==
    /\ a # b
    /\ calls[a].pc = "done" /\ calls[a].op = "CreateDongle"
    /\ calls[b].pc = "done" /\ calls[b].op = "CreateDongle"
    /\ calls[a].arg.Path = calls[b].arg.Path
    /\ a \in calls[b].with

\* One of the two calls returned no error, the other failed, and the row
\* stored at the path is the one the successful call wrote.
FirstWins(a, b) ==
    \E w \in {a, b} :
        /\ calls[w].err = Nil
        /\ \A l \in {a, b} \ {w} : calls[l].err = ErrUnique
        /\ PathStored(dongles, calls[w].arg.Path)
        /\ \A r \in RowSet(dongles) :
              r.path = calls[w].arg.Path => WrittenFor(r, calls[w].arg)

\* C7 as claimed: of two overlapping CreateDongle calls for one path, one
\* returns no error and the other fails, and the row stored at that path is
\* the one the successful call wrote.
C7_ExactlyOneSucceeds ==
    \A a, b \in Callers : BothInserted(a, b) => FirstWins(a, b)

\* C7 as amended: of two overlapping CreateDongle calls for one path, if no
\* row was stored at the path when they overlapped one returns no error, the
\* other fails on the unique index and the row stored at the path is the one
\* the successful call wrote; if a row was stored there both fail on the
\* unique index and a row is still stored there.
C7_OneInsertWins ==
    \A a, b \in Callers :
        BothInserted(a, b) =>
            IF calls[b].atPath
            THEN /\ calls[a].err = ErrUnique
                 /\ calls[b].err = ErrUnique
                 /\ PathStored(dongles, calls[b].arg.Path)
            ELSE FirstWins(a, b)

\* Two overlapping CreateDongle calls of different devices for one path that
\* was free have both returned, the one that began second having won.
C7_Witness ==
    \E a, b \in Callers :
        /\ BothInserted(a, b)
        /\ ~calls[b].atPath
        /\ calls[a].arg.IMEI # calls[b].arg.IMEI
        /\ calls[b].err = Nil

C9_NoBindingsNotFound ==
    (last.op = "GetSymlinkCandidate" /\ RowsOf(dongles, last.arg) = {}) =>
        (last.err \in NotFound /\ last.out = NilDongle)

\* GetSymlinkCandidate has returned for an IMEI with no rows while a row of
\* another device is stored at the path of tty 0.
C9_Witness ==
    /\ last.op = "GetSymlinkCandidate"
    /\ RowsOf(dongles, last.arg) = {}
    /\ PathStored(dongles, Sprintf(0))
    /\ last.err # Nil

\* C10: RemoveDongle returns no error, leaves no row with the IMEI of its
\* argument, adds no row, and keeps the rows of every other IMEI; when no
\* row has that IMEI the table is as it was.
C10_DeleteFrame ==
    [][ last'.op = "RemoveDongle" =>
          LET d == last'.arg
          IN  /\ last'.err = Nil
              /\ RowsOf(dongles', d.IMEI) = {}
              /\ RowSet(dongles') \subseteq RowSet(dongles)
              /\ \A x \in IMEIs \ {d.IMEI} : RowsOf(dongles', x) = RowsOf(dongles, x)
              /\ RowsOf(dongles, d.IMEI) = {} => dongles' = dongles ]_vars

\* RemoveDongle has removed the rows of a device on two ports and a row of
\* another device is still stored.
C10_Witness ==
    /\ last.op = "RemoveDongle"
    /\ last.err = Nil
    /\ last.before = Len(dongles) + 2
    /\ Len(dongles) = 1

\* C11: a RemoveDongle made right after a RemoveDongle of the same dongle
\* returns no error, as the first did, and leaves the table as the first
\* left it; so does the statement run once more on the table any
\* RemoveDongle leaves.
C11_DeleteIdempotent ==
    [][ /\ last'.op = "RemoveDongle"
              => RemoveDongleTx(dongles', last'.arg)
                     = [rows |-> dongles', err |-> last'.err]
        /\ (/\ last.op = "RemoveDongle"
            /\ last'.op = "RemoveDongle"
            /\ last'.arg = last.arg)
              => (dongles' = dongles /\ last'.err = Nil /\ last.err = Nil) ]_vars

\* RemoveDongle has removed the rows of a device on two ports, a row of
\* another device is still stored, and run once more it changes nothing.
C11_Witness ==
    /\ last.op = "RemoveDongle"
    /\ last.before = Len(dongles) + 2
    /\ Len(dongles) = 1
    /\ RemoveDongleTx(dongles, last.arg).rows = dongles

\* C13: an UpdateDongle whose path and IMEI together match no row returns no
\* error and leaves the table as it was: no row is changed and none added.
C13_UpdateNoMatchIsNoOp ==
    [][ (last'.op = "UpdateDongle" /\ ~Matched(dongles, last'.arg))
           => (last'.err = Nil /\ dongles' = dongles) ]_vars

\* UpdateDongle has returned for a dongle that matched no row, while one row
\* has its path and another its IMEI.
C13_Witness ==
    /\ last.op = "UpdateDongle"
    /\ last.err = Nil
    /\ ~Matched(dongles, last.arg)
    /\ \E r \in RowSet(dongles) : r.path = last.arg.Path /\ r.imei # last.arg.IMEI
    /\ \E r \in RowSet(dongles) : r.imei = last.arg.IMEI /\ r.path # last.arg.Path

\* C18: a GetSymlinkCandidate that returns a dongle returns one with the IMEI
\* it was called for.
C18_CandidateIsOfDevice ==
    \A c \in Callers :
        (/\ calls[c].op = "GetSymlinkCandidate"
         /\ calls[c].pc = "done"
         /\ calls[c].err = Nil)
            => calls[c].out.IMEI = calls[c].arg

\* C12: an UpdateDongle whose path and IMEI match a row returns no error,
\* writes the IMSI, the symlink flag, the tty, the ATI reply and the
\* properties of its argument to that row, keeps the row's created_on, and
\* leaves every other row as it was.
C12_UpdateReplacesFields ==
    [][ (last'.op = "UpdateDongle" /\ Matched(dongles, last'.arg)) =>
          LET d == last'.arg
          IN  /\ last'.err = Nil
              /\ Len(dongles') = Len(dongles)
              /\ \A i \in 1 .. Len(dongles) :
                    IF dongles[i].path = d.Path /\ dongles[i].imei = d.IMEI
                    THEN /\ WrittenFor(dongles'[i], d)
                         /\ dongles'[i].created_on = dongles[i].created_on
                    ELSE dongles'[i] = dongles[i] ]_vars

\* C14: DongleExists returns true exactly when some row has the IMEI, the
\* IMSI and the path of its argument, all three in the one row.
C14_ExistsIffTriple ==
    last.op = "DongleExists" =>
        (last.out <=> \E r \in RowSet(dongles) :
                         /\ r.imei = last.arg.IMEI
                         /\ r.imsi = last.arg.IMSI
                         /\ r.path = last.arg.Path)

\* DongleExists has returned false while one row has the IMEI and the path
\* of the argument with another IMSI, and another row its IMEI and its IMSI
\* at another path.
C14_Witness ==
    /\ last.op = "DongleExists"
    /\ last.out = FALSE
    /\ \E r \in RowSet(dongles) :
          r.imei = last.arg.IMEI /\ r.path = last.arg.Path /\ r.imsi # last.arg.IMSI
    /\ \E r \in RowSet(dongles) :
          r.imei = last.arg.IMEI /\ r.imsi = last.arg.IMSI /\ r.path # last.arg.Path

\* C16: after a CreateDongle that returned no error, GetDongle at the path
\* of the dongle returns no error and a dongle with the Properties that were
\* passed: a nil map for a nil map, and for a map that is not nil a map that
\* is not nil with the same pairs; a GetDongle made right after the
\* CreateDongle returns them.
C16_PropertiesRoundTrip ==
    [][ /\ (last'.op = "CreateDongle" /\ last'.err = Nil)
              => LET g == GetDongle(dongles', last'.arg.Path)
                 IN  /\ g.err = Nil
                     /\ g.out.Properties = last'.arg.Properties
                     /\ g.out.Properties.present = last'.arg.Properties.present
        /\ (/\ last.op = "CreateDongle"
            /\ last.err = Nil
            /\ last'.op = "GetDongle"
            /\ last'.arg = last.arg.Path)
              => (last'.err = Nil /\ last'.out.Properties = last.arg.Properties) ]_vars

\* A dongle with an empty map has been inserted next to a row that holds no
\* blob, and read back the two differ: one map is empty, the other nil.
C16_Witness ==
    /\ last.op = "CreateDongle"
    /\ last.err = Nil
    /\ last.arg.Properties = MakeMap({})
    /\ GetDongle(dongles, last.arg.Path).out.Properties = MakeMap({})
    /\ \E p \in ConcPaths :
          /\ GetDongle(dongles, p).err = Nil
          /\ GetDongle(dongles, p).out.Properties = NilMap

\* C15: a DongleExists in which the store failed returns false and no
\* error; every other call in which the store failed, read or write,
\* returns the error of the store.
C15_OnlyExistsSuppresses ==
    (calls[Writer].pc = "done" /\ calls[Writer].hit) =>
        IF calls[Writer].op = "DongleExists"
        THEN calls[Writer].out = FALSE /\ calls[Writer].err = Nil
        ELSE calls[Writer].err = ErrStorage

\* The store failed in a DongleExists for a dongle that has a row with its
\* IMEI, IMSI and path.
C15_Witness ==
    /\ calls[Writer].pc = "done"
    /\ calls[Writer].op = "DongleExists"
    /\ calls[Writer].hit
    /\ calls[Writer].out = FALSE
    /\ CountDongles(dongles, calls[Writer].arg) > 0

\* C17: the schema and the table change only in the commit of a write call
\* that returns no error, and then to what the whole statement of the call
\* makes of them; a write call that returns an error, whatever the error,
\* returns with the table as it was when the call was made; and a
\* GetAllDongles of another goroutine that runs while a write call is under
\* way returns the table as it was when that call was made.
C17_WritesAreAtomic ==
    [][ /\ (dongles' # dongles \/ schema' # schema) =>
              /\ calls[Writer].op \in WriteOps
              /\ calls[Writer].pc = "commit"
              /\ calls'[Writer].pc = "done"
              /\ calls'[Writer].err = Nil
              /\ LET call == calls[Writer]
                     r == Statement(call.op, call.arg, schema, dongles, clock)
                 IN  r.err = Nil /\ schema' = r.schema /\ dongles' = r.rows
        /\ (/\ calls[Writer].op \in WriteOps
            /\ calls[Writer].pc \in {"begin", "exec", "commit"}
            /\ calls'[Writer].pc = "done"
            /\ calls'[Writer].err # Nil) =>
              (dongles' = dongles /\ dongles' = calls[Writer].was)
        /\ (/\ calls[Writer].op \in WriteOps
            /\ calls[Writer].pc \in {"begin", "exec", "commit"}
            /\ last' # last
            /\ ~last'.hit) =>
              last'.out = GetAllDongles(calls[Writer].was).out ]_vars

\* A RemoveDongle of a device stored on two ports has returned the error of
\* a failed commit, both rows are stored, and the second goroutine has read
\* both.
C17_Witness ==
    /\ calls[Writer].pc = "done"
    /\ calls[Writer].op = "RemoveDongle"
    /\ calls[Writer].err = ErrStorage
    /\ Len(calls[Writer].tx.rows) = 0
    /\ Len(dongles) = 2
    /\ dongles = calls[Writer].was
    /\ last.op = "GetAllDongles"
    /\ last.err = Nil
    /\ Len(last.out) = 2
    /\ last.before = 2

====
